---- MODULE Spec2Model ----
(***************************************************************************)
(* A model of plugins/inventory/vagrant.py: the directory fingerprinting   *)
(* functions (calculateFileMD5, calculateDirMD5, checkDir), the            *)
(* PersistentDict store and the module-level cache invalidation.           *)
(*                                                                         *)
(* Conventions.                                                            *)
(*  - A path is a sequence of one-character strings, so that str.startswith *)
(*    and os.path.join are the character-level operations of the code.     *)
(*  - A file is a sequence of blocks of block_size bytes; a block is what one *)
(*    f.read(block_size) returns.  File sizes are whole numbers of blocks.  *)
(*  - hashlib.md5 is taken to be collision-free: a digest is represented by *)
(*    the stream of blocks that was fed to md5.update, and the order of two *)
(*    hex digests is a fixed total order on those streams (HexCmp).         *)
(***************************************************************************)
EXTENDS Integers, Sequences, FiniteSets, TLC

VARIABLES
    fs,         \* the directory tree: path -> [kind, blocks]
    scan,       \* the last return value of calculateDirMD5 (with its arguments)
    checksum,   \* the previous record handed to checkDir: path -> <<md5, kind>>
    result,     \* the last return value of checkDir (with its arguments)
    last,       \* the last change made to the tree (history)
    probe,      \* the last return value of probeDir (with its argument)
    disk,       \* the directory of the store: the backing file and the temp file
    pd,         \* the PersistentDict object of each process: flag, format, map
    pc,         \* where each process is inside sync()
    call,       \* the operation each process is in or has last completed
    fd,         \* the file object each process has open on the temp file
    run,        \* the script run: its position and its local variables
    vagrant     \* the boxes vagrant reports as running

treeVars == <<fs, scan, checksum, result, last, probe>>
storeVars == <<disk, pd, pc, call, fd>>
scriptVars == <<run, vagrant>>
vars == <<fs, scan, checksum, result, last, probe, disk, pd, pc, call, fd, run, vagrant>>

(***************************************************************************)
(* Paths                                                                   *)
(***************************************************************************)
D == <<"D">>
name_a == <<"a">>
name_b == <<"b">>
name_s == <<"s">>

os_path_join(basedir, item) == basedir \o <<"/">> \o item

Da  == os_path_join(D, name_a)
Db  == os_path_join(D, name_b)
Ds  == os_path_join(D, name_s)
Dsa == os_path_join(Ds, name_a)

Slots == {D, Da, Db, Ds, Dsa}
DirSlots == {D, Ds}
FileSlots == {Da, Db, Ds, Dsa}
LargeSlots == {Dsa}

ChildNames(dir) == {n \in {name_a, name_b, name_s} : os_path_join(dir, n) \in Slots}

Parent(p) == SubSeq(p, 1, Len(p) - 2)

startswith(x, prefix) ==
    /\ Len(prefix) <= Len(x)
    /\ SubSeq(x, 1, Len(prefix)) = prefix

\* os.path.relpath(path, basedir) for a path below basedir
relpath(path, basedir) == SubSeq(path, Len(basedir) + 2, Len(path))

(***************************************************************************)
(* Files                                                                   *)
(***************************************************************************)
block_size == 2^20

NoLines == <<>>
UBlock(v) == [data |-> v, lines |-> NoLines]

\* a file of n blocks that all differ
Ramp(n) == [i \in 1..n |-> UBlock(i)]

Absent == [kind |-> "none", blocks |-> <<>>, target |-> <<>>]
File(blocks) == [kind |-> "file", blocks |-> blocks, target |-> <<>>]
Dir == [kind |-> "dir", blocks |-> <<>>, target |-> <<>>]
\* a symbolic link to the path target
Link(target) == [kind |-> "link", blocks |-> <<>>, target |-> target]

\* the number of symbolic links the system follows while it resolves one path
\* before it gives up (ELOOP)
MaxLinks == 2

basename(p) == <<p[Len(p)]>>
NoEntry == [ok |-> FALSE, real |-> <<>>, left |-> 0]

\* Path resolution as stat() does it: every component that is a symbolic
\* link is replaced by its target.  Walk gives the place the path leads to.
RECURSIVE Walk(_, _, _)
Land(tree, q, left) ==
    IF q \notin DOMAIN tree \/ tree[q].kind = "none" THEN NoEntry
    ELSE IF tree[q].kind = "link"
         THEN IF left = 0 THEN NoEntry ELSE Walk(tree, tree[q].target, left - 1)
    ELSE [ok |-> TRUE, real |-> q, left |-> left]

Walk(tree, path, left) ==
    IF Len(path) <= 1 THEN Land(tree, path, left)
    ELSE LET dir == Walk(tree, Parent(path), left)
         IN  IF ~dir.ok \/ tree[dir.real].kind # "dir" THEN NoEntry
             ELSE Land(tree, os_path_join(dir.real, basename(path)), dir.left)

stat(tree, p) ==
    LET w == Walk(tree, p, MaxLinks) IN IF w.ok THEN tree[w.real] ELSE Absent

\* os.lstat: the entry itself
lexists(tree, p) == p \in DOMAIN tree /\ tree[p].kind # "none"

isfile(tree, p) == stat(tree, p).kind = "file"
isdir(tree, p)  == stat(tree, p).kind = "dir"
exists(tree, p) == stat(tree, p).kind # "none"
getsize(tree, p) == Len(stat(tree, p).blocks) * block_size
\* what open(p, 'rb') reads
readall(tree, p) == stat(tree, p).blocks

(***************************************************************************)
(* calculateFileMD5                                                        *)
(***************************************************************************)
\* the stream given to md5.update stands for md5.hexdigest() of it
hexdigest(fed) == fed

\* The read loops, unrolled by the number k = 1, 2, ... of the f.read call.
\* Whole file (filesize < 2**26): read k starts at block k - 1; the loop
\* breaks at the first read that returns no data.
WholeBreak(blocks) == Len(blocks) + 1

ReadWhole(blocks) == [k \in 1..(WholeBreak(blocks) - 1) |-> blocks[k]]

\* Partial read: count starts at 64 and is decremented after each read, so it
\* is 64 - k after read k.  When it reaches 32 (after read 32) the cursor is
\* set to 2**25 bytes before the end, which is where read 33 starts.
SeekPos(blocks) == (Len(blocks) * block_size - 2^25) \div block_size

PartialPos(blocks, k) ==
    IF 64 - (k - 1) > 32 THEN k - 1 ELSE SeekPos(blocks) + (k - 33)

\* the loop breaks at read k when it returns no data or count has reached 0;
\* the data of that read is not given to md5.update
PartialBreaks(blocks, k) == PartialPos(blocks, k) >= Len(blocks) \/ 64 - k = 0

PartialBreak(blocks) ==
    CHOOSE k \in 1..64 :
        /\ PartialBreaks(blocks, k)
        /\ \A j \in 1..(k - 1) : ~PartialBreaks(blocks, j)

ReadPartial(blocks) ==
    [k \in 1..(PartialBreak(blocks) - 1) |-> blocks[PartialPos(blocks, k) + 1]]

\* the blocks calculateFileMD5 passes to md5.update, in order
FedBlocks(blocks) ==
    IF Len(blocks) * block_size < 2^26
    THEN ReadWhole(blocks)
    ELSE ReadPartial(blocks)

calculateFileMD5(blocks) == hexdigest(FedBlocks(blocks))

(***************************************************************************)
(* The order of hex digests (manifest.sort(key=operator.itemgetter(1)))    *)
(***************************************************************************)
CmpInt(x, y) == IF x < y THEN -1 ELSE IF x > y THEN 1 ELSE 0

CharCode(c) ==
    CASE c = "/" -> 47 [] c = "2" -> 50 [] c = "D" -> 68 [] c = "a" -> 97
      [] c = "b" -> 98 [] c = "s" -> 115 [] c = "x" -> 120 [] OTHER -> 0

RECURSIVE CmpPath(_, _)
CmpPath(p, q) ==
    IF p = <<>> /\ q = <<>> THEN 0
    ELSE IF p = <<>> THEN -1
    ELSE IF q = <<>> THEN 1
    ELSE IF Head(p) # Head(q) THEN CmpInt(CharCode(Head(p)), CharCode(Head(q)))
    ELSE CmpPath(Tail(p), Tail(q))

KindCode(k) == IF k = "-" THEN 45 ELSE 100

\* the first comparison of the sequence that is decided
RECURSIVE FirstNonZero(_)
FirstNonZero(cs) ==
    IF cs = <<>> THEN 0
    ELSE IF Head(cs) # 0 THEN Head(cs)
    ELSE FirstNonZero(Tail(cs))

RECURSIVE HexCmp(_, _)
RECURSIVE CmpLines(_, _)

CmpLine(l1, l2) ==
    LET c1 == HexCmp(l1.md5, l2.md5)
    IN  IF c1 # 0 THEN c1
        ELSE FirstNonZero(<<
                CmpInt(KindCode(l1.kind), KindCode(l2.kind)),
                CmpInt(l1.nfiles, l2.nfiles),
                CmpInt(l1.ndirs, l2.ndirs),
                CmpInt(l1.sfiles, l2.sfiles),
                CmpInt(l1.total_nfiles, l2.total_nfiles),
                CmpInt(l1.total_sfiles, l2.total_sfiles),
                CmpPath(l1.name, l2.name) >>)

CmpLines(ls1, ls2) ==
    IF ls1 = <<>> /\ ls2 = <<>> THEN 0
    ELSE IF ls1 = <<>> THEN -1
    ELSE IF ls2 = <<>> THEN 1
    ELSE LET c == CmpLine(Head(ls1), Head(ls2))
         IN  IF c # 0 THEN c ELSE CmpLines(Tail(ls1), Tail(ls2))

CmpBlock(b1, b2) ==
    IF b1.data # b2.data THEN CmpInt(b1.data, b2.data)
    ELSE CmpLines(b1.lines, b2.lines)

\* string comparison: decided at the first position where the two differ,
\* a proper prefix being the smaller
HexCmp(d1, d2) ==
    LET n    == IF Len(d1) < Len(d2) THEN Len(d1) ELSE Len(d2)
        diff == {i \in 1..n : d1[i] # d2[i]}
        k    == CHOOSE i \in diff : \A j \in diff : i <= j
    IN  IF diff = {} THEN CmpInt(Len(d1), Len(d2))
        ELSE CmpBlock(d1[k], d2[k])

\* list.sort(key=itemgetter(1)) is stable: an item goes behind every item
\* whose key is not greater than its own
RECURSIVE InsertByMd5(_, _)
InsertByMd5(sorted, item) ==
    IF sorted = <<>> THEN <<item>>
    ELSE IF HexCmp(Head(sorted).md5, item.md5) <= 0
         THEN <<Head(sorted)>> \o InsertByMd5(Tail(sorted), item)
         ELSE <<item>> \o sorted

RECURSIVE SortByMd5From(_, _)
SortByMd5From(sorted, rest) ==
    IF rest = <<>> THEN sorted
    ELSE SortByMd5From(InsertByMd5(sorted, Head(rest)), Tail(rest))

SortByMd5(manifest) == SortByMd5From(<<>>, manifest)

(***************************************************************************)
(* calculateDirMD5                                                         *)
(***************************************************************************)
\* the orders os.listdir may return the children of each directory in
Perms(S) ==
    {q \in [1..Cardinality(S) -> S] : \A i, j \in 1..Cardinality(S) : q[i] = q[j] => i = j}

Orders == {o \in [DirSlots -> UNION {Perms(ChildNames(d)) : d \in DirSlots}] :
              \A d \in DirSlots : o[d] \in Perms(ChildNames(d))}

listdir(tree, basedir, ord) ==
    LET real == Walk(tree, basedir, MaxLinks).real
    IN  SelectSeq(ord[real], LAMBDA n : lexists(tree, os_path_join(real, n)))

\* a manifest item: (fullname, md5, type, nfiles, ndirs, sfiles, total_nfiles, total_sfiles)
Item(fullname, md5, kind, nfiles, ndirs, sfiles, total_nfiles, total_sfiles) ==
    [fullname |-> fullname, md5 |-> md5, kind |-> kind, nfiles |-> nfiles,
     ndirs |-> ndirs, sfiles |-> sfiles, total_nfiles |-> total_nfiles,
     total_sfiles |-> total_sfiles]

\* a line that leaves the digest of the item out
FormatLineNoDigest(item, basedir) ==
    [md5 |-> <<>>, kind |-> item.kind, nfiles |-> item.nfiles,
     ndirs |-> item.ndirs, sfiles |-> item.sfiles,
     total_nfiles |-> item.total_nfiles, total_sfiles |-> item.total_sfiles,
     name |-> relpath(item.fullname, basedir)]

\* one line of the temporary manifest file
FormatLine(item, basedir) ==
    [md5 |-> item.md5, kind |-> item.kind, nfiles |-> item.nfiles,
     ndirs |-> item.ndirs, sfiles |-> item.sfiles,
     total_nfiles |-> item.total_nfiles, total_sfiles |-> item.total_sfiles,
     name |-> relpath(item.fullname, basedir)]

\* the temporary manifest file: no block when nothing was written, else one
\* block holding the lines
TmpFile(manifest, basedir) ==
    IF manifest = <<>> THEN <<>>
    ELSE << [data |-> 0,
             lines |-> [i \in 1..Len(manifest) |-> FormatLine(manifest[i], basedir)]] >>

RECURSIVE SumSeq(_)
SumSeq(xs) == IF xs = <<>> THEN 0 ELSE Head(xs) + SumSeq(Tail(xs))

RECURSIVE calculateDirMD5(_, _, _)
RECURSIVE ListLoop(_, _, _, _, _)

ListLoop(basedir, items, tree, ord, manifest) ==
    IF items = <<>> THEN manifest
    ELSE
      LET fullname == os_path_join(basedir, Head(items))
      IN  IF isfile(tree, fullname) THEN
            LET filesize == getsize(tree, fullname)
            IN  ListLoop(basedir, Tail(items), tree, ord,
                    Append(manifest,
                           Item(fullname, calculateFileMD5(readall(tree, fullname)),
                                "-", 1, 0, filesize, 1, filesize)))
          ELSE IF isdir(tree, fullname) THEN
            LET sub == calculateDirMD5(fullname, tree, ord)
            IN  ListLoop(basedir, Tail(items), tree, ord,
                    Append(manifest,
                           Item(fullname, sub.md5, "d", sub.nfiles, sub.ndirs,
                                sub.sfiles, sub.total_nfiles, sub.total_sfiles))
                    \o sub.manifest)
          ELSE ListLoop(basedir, Tail(items), tree, ord, manifest)

calculateDirMD5(basedir, tree, ord) ==
    LET manifest == SortByMd5(ListLoop(basedir, listdir(tree, basedir, ord), tree, ord, <<>>))
        md5      == calculateFileMD5(TmpFile(manifest, basedir))
        files    == SelectSeq(manifest, LAMBDA x : x.kind = "-")
        nfiles   == Len(files)
    IN  [md5 |-> md5,
         nfiles |-> nfiles,
         ndirs |-> Len(manifest) - nfiles,
         sfiles |-> SumSeq([i \in 1..Len(files) |-> files[i].sfiles]),
         total_nfiles |-> SumSeq([i \in 1..Len(manifest) |-> manifest[i].total_nfiles]),
         total_sfiles |-> SumSeq([i \in 1..Len(manifest) |-> manifest[i].total_sfiles]),
         manifest |-> manifest]

(***************************************************************************)
(* probeDir                                                                *)
(***************************************************************************)
Min(x, y) == IF x <= y THEN x ELSE y

RECURSIVE probeDir(_, _, _)
RECURSIVE ProbeLoop(_, _, _, _, _, _)

ProbeLoop(basedir, items, tree, ord, count, filesize) ==
    IF items = <<>> THEN [count |-> count, filesize |-> filesize]
    ELSE
      LET fullname == os_path_join(basedir, Head(items))
      IN  IF isfile(tree, fullname) THEN
            ProbeLoop(basedir, Tail(items), tree, ord, count + 1,
                      filesize + Min(2^26, getsize(tree, fullname)))
          ELSE IF isdir(tree, fullname) THEN
            LET sub == probeDir(fullname, tree, ord)
            IN  ProbeLoop(basedir, Tail(items), tree, ord, count + sub.count,
                          filesize + sub.filesize)
          ELSE ProbeLoop(basedir, Tail(items), tree, ord, count, filesize)

probeDir(basedir, tree, ord) ==
    IF isfile(tree, basedir) THEN [count |-> 1, filesize |-> getsize(tree, basedir)]
    ELSE ProbeLoop(basedir, listdir(tree, basedir, ord), tree, ord, 0, 0)

(***************************************************************************)
(* checkDir                                                                *)
(***************************************************************************)
\* '{}: FAILED'.format(basedir): the path followed by the fixed text
Msg(path, text) == path \o <<text>>

Return(ok, messages) == [raised |-> "", ok |-> ok, messages |-> messages]
Raise(exception) == [raised |-> exception, ok |-> FALSE, messages |-> <<>>]

\* {x:y for x,y in checksum.iteritems() if x.startswith(basedir) and x != basedir}
Candidates(basedir, cks) ==
    [x \in {k \in DOMAIN cks : startswith(k, basedir) /\ k # basedir} |-> cks[x]]

Pop(cs, key) == [x \in DOMAIN cs \ {key} |-> cs[x]]

AddedMsg(line) ==
    IF line.kind = "d" THEN Msg(line.fullname, ": new directory added.")
    ELSE Msg(line.fullname, ": new file added.")

ModifiedMsg(line) ==
    IF line.kind = "d" THEN Msg(line.fullname, ": directory modified.")
    ELSE Msg(line.fullname, ": file modified.")

RemovedMsg(item, value) ==
    IF value[2] = "d" THEN Msg(item, ": directory removed.")
    ELSE Msg(item, ": file removed.")

\* for line in manifest: ...   (the candidate set and the messages so far)
RECURSIVE WalkManifest(_, _, _)
WalkManifest(manifest, cs, messages) ==
    IF manifest = <<>> THEN [cs |-> cs, messages |-> messages]
    ELSE
      LET line == Head(manifest)
      IN  IF line.fullname \notin DOMAIN cs
          THEN WalkManifest(Tail(manifest), cs, Append(messages, AddedMsg(line)))
          ELSE IF line.md5 # cs[line.fullname][1]
          THEN WalkManifest(Tail(manifest), Pop(cs, line.fullname),
                            Append(messages, ModifiedMsg(line)))
          ELSE WalkManifest(Tail(manifest), Pop(cs, line.fullname), messages)

\* the candidates left after the walk, which cs.iteritems() then enumerates
Remaining(basedir, cks, tree, ord) ==
    IF isdir(tree, basedir) /\ basedir \in DOMAIN cks
    THEN WalkManifest(calculateDirMD5(basedir, tree, ord).manifest,
                      Candidates(basedir, cks), <<>>).cs
    ELSE <<>>

\* a comparison turned round
StoredDigestDiffers(md5, cks, basedir) == md5 # cks[basedir][1]

\* md5 == checksum[basedir][0]
StoredDigestEquals(md5, cks, basedir) == md5 = cks[basedir][1]

\* iter: the order in which cs.iteritems() yields the keys left
checkDir(basedir, cks, tree, ord, iter) ==
    IF isfile(tree, basedir) THEN
        IF basedir \notin DOMAIN cks THEN Raise("KeyError")
        ELSE IF StoredDigestEquals(calculateFileMD5(readall(tree, basedir)), cks, basedir)
        THEN Return(TRUE, <<Msg(basedir, ": OK")>>)
        ELSE Return(FALSE, <<Msg(basedir, ": FAILED")>>)
    ELSE IF ~isdir(tree, basedir) THEN Raise("OSError")
    ELSE
      LET r == calculateDirMD5(basedir, tree, ord)
      IN  IF basedir \notin DOMAIN cks THEN Raise("KeyError")
          ELSE IF StoredDigestEquals(r.md5, cks, basedir)
          THEN Return(TRUE, <<Msg(basedir, ": OK")>>)
          ELSE
            LET cs == Candidates(basedir, cks)
            IN  IF DOMAIN cs = {} THEN Return(FALSE, <<Msg(basedir, ": FAILED")>>)
                ELSE
                  LET walked  == WalkManifest(r.manifest, cs, <<>>)
                      removed == [i \in 1..Len(iter) |->
                                    RemovedMsg(iter[i], walked.cs[iter[i]])]
                  IN  Return(FALSE, walked.messages \o removed
                                    \o <<Msg(basedir, ": FAILED")>>)

(***************************************************************************)
(* PersistentDict: values and the three serialization formats              *)
(*                                                                         *)
(* A value is a record [t, s, d]: t is its Python type, s its text, d the  *)
(* digest it carries.  "obj" is a value none of json and pickle can        *)
(* serialize.  What a dump writes is a sequence of chunks, one per         *)
(* fileobj.write of the serializer; a file of the store's directory is the *)
(* sequence of chunks written to it.                                       *)
(***************************************************************************)
NoDigest == <<>>
PyStr(text) == [t |-> "str", s |-> <<text>>, d |-> NoDigest]
PyInt(text) == [t |-> "int", s |-> <<text>>, d |-> NoDigest]
Obj == [t |-> "obj", s |-> <<"object">>, d |-> NoDigest]
PyNone == [t |-> "none", s |-> <<>>, d |-> NoDigest]

Formats == {"pickle", "json", "csv"}
Flags == {"c", "r", "n"}

EmptyMap == <<>>
Put(map, k, v) == [x \in DOMAIN map \cup {k} |-> IF x = k THEN v ELSE map[x]]
Del(map, k) == [x \in DOMAIN map \ {k} |-> map[x]]

\* the order in which a dict of the keys used here is iterated
KeyOrder == <<"k1", "k2", "vagrant_checksum", "boxes", "db", "web", "configs">>
RECURSIVE KeysFrom(_, _)
KeysFrom(map, i) ==
    IF i > Len(KeyOrder) THEN <<>>
    ELSE (IF KeyOrder[i] \in DOMAIN map THEN <<KeyOrder[i]>> ELSE <<>>)
         \o KeysFrom(map, i + 1)
items(map) == KeysFrom(map, 1)

\* str(value), what csv.writer writes for a value
Stringify(v) == [t |-> "str", s |-> v.s, d |-> v.d]
Serializable(v) == v.t # "obj"

Chunk(fmt, part, key, val) == [fmt |-> fmt, part |-> part, key |-> key, val |-> val]
Hole == Chunk("", "hole", "", PyNone)
OpenChunk(fmt) == Chunk(fmt, "open", "", PyNone)
CloseChunk(fmt) == Chunk(fmt, "close", "", PyNone)
EntryChunkWithoutValue(fmt, k, v) == Chunk(fmt, "entry", k, PyNone)
\* what a serializer writes for one item; csv.writer writes str(value)
EntryChunk(fmt, k, v) == Chunk(fmt, "entry", k, IF fmt = "csv" THEN Stringify(v) ELSE v)

\* the keys written before the serializer meets a value it cannot serialize
RECURSIVE WritableKeys(_, _, _)
WritableKeys(fmt, map, keys) ==
    IF keys = <<>> THEN <<>>
    ELSE IF fmt # "csv" /\ ~Serializable(map[Head(keys)]) THEN <<>>
    ELSE <<Head(keys)>> \o WritableKeys(fmt, map, Tail(keys))

DumpRaises(fmt, map) ==
    \/ fmt \notin Formats
    \/ fmt # "csv" /\ \E k \in DOMAIN map : ~Serializable(map[k])

DumpError(fmt, map) ==
    IF fmt \notin Formats THEN "NotImplementedError"
    ELSE IF fmt = "json" THEN "TypeError"
    ELSE "PicklingError"

\* the chunks dump() writes to fileobj, up to the point where it returns or raises
dump(fmt, map) ==
    IF fmt \notin Formats THEN <<>>
    ELSE LET keys == WritableKeys(fmt, map, items(map))
             entries == [i \in 1..Len(keys) |-> EntryChunk(fmt, keys[i], map[keys[i]])]
         IN  IF fmt = "csv" THEN entries
             ELSE <<OpenChunk(fmt)>> \o entries
                  \o (IF DumpRaises(fmt, map) THEN <<>> ELSE <<CloseChunk(fmt)>>)

\* the text is a whole document of format fmt
Decodes(fmt, content) ==
    IF fmt = "csv"
    THEN \A i \in 1..Len(content) : content[i].fmt = "csv" /\ content[i].part = "entry"
    ELSE /\ Len(content) >= 2
         /\ content[1] = OpenChunk(fmt)
         /\ content[Len(content)] = CloseChunk(fmt)
         /\ \A i \in 2..(Len(content) - 1) :
                content[i].fmt = fmt /\ content[i].part = "entry"

Entries(content) == {i \in 1..Len(content) : content[i].part = "entry"}
\* dict.update: a later row of a key overrides an earlier one
Decoded(content) ==
    [k \in {content[i].key : i \in Entries(content)} |->
        LET i == CHOOSE j \in Entries(content) :
                    /\ content[j].key = k
                    /\ \A h \in Entries(content) : content[h].key = k => h <= j
        IN  content[i].val]

\* load(): the loaders are tried in the order pickle, json, csv
Loaders == <<"pickle", "json", "csv">>
LoadRaises(content) == \A i \in 1..Len(Loaders) : ~Decodes(Loaders[i], content)
Loader(content) ==
    LET i == CHOOSE j \in 1..Len(Loaders) :
                /\ Decodes(Loaders[j], content)
                /\ \A h \in 1..(j - 1) : ~Decodes(Loaders[h], content)
    IN  Loaders[i]
load(content) == IF Decodes(Loader(content), content) THEN Decoded(content) ELSE EmptyMap

(***************************************************************************)
(* The directory of the store: two names, the backing file and the temp    *)
(* file '<filename>.tmp', each bound to an inode or to nothing (0).        *)
(***************************************************************************)
MaxInodes == 4
Inodes == 1..MaxInodes
Procs == {1, 2}

NoFd == [inode |-> 0, off |-> 0]
NoDisk == [file |-> 0, temp |-> 0, data |-> [i \in Inodes |-> <<>>]]

Used(d, f) == {d.file, d.temp} \cup {f[p].inode : p \in Procs}
FreeInode(d, f) == CHOOSE i \in Inodes : i \notin Used(d, f) /\ \A j \in Inodes : j < i => j \in Used(d, f)
\* the data of an inode without a name and without an open descriptor is gone
Collect(d, f) == [d EXCEPT !.data = [i \in Inodes |-> IF i \in Used(d, f) THEN d.data[i] ELSE <<>>]]

NoFile == [exists |-> FALSE, content |-> <<>>]
BackingFile(d) == IF d.file = 0 THEN NoFile ELSE [exists |-> TRUE, content |-> d.data[d.file]]
TempFile(d) == IF d.temp = 0 THEN NoFile ELSE [exists |-> TRUE, content |-> d.data[d.temp]]

Max(x, y) == IF x >= y THEN x ELSE y
\* fileobj.write at the offset of the descriptor
WriteAt(content, off, chunk) ==
    [i \in 1..Max(Len(content), off + 1) |->
        IF i = off + 1 THEN chunk
        ELSE IF i <= Len(content) THEN content[i] ELSE Hole]

os_remove_nothing(d, f, name) == d
\* os.remove(name) of an existing name
os_remove(d, f, name) ==
    Collect(IF name = "file" THEN [d EXCEPT !.file = 0] ELSE [d EXCEPT !.temp = 0], f)

\* os.rename(tempname, filename)
os_rename(d, f) == Collect([d EXCEPT !.file = d.temp, !.temp = 0], f)

\* open(tempname, 'w'): truncates the file of that name or creates it
open_w(d, f) ==
    IF d.temp # 0 THEN [d EXCEPT !.data[d.temp] = <<>>]
    ELSE [d EXCEPT !.temp = FreeInode(d, f)]

NoCall == [op |-> "none", exc |-> "", before |-> NoFile, todo |-> <<>>,
           raises |-> "", wrote |-> 0, overlap |-> FALSE]
NoStore == [flag |-> "c", format |-> "pickle", map |-> EmptyMap]

\* PersistentDict(filename, flag, format=format), when load() does not raise
PersistentDict(d, flag, format) ==
    [flag |-> flag, format |-> format,
     map |-> IF flag # "n" /\ BackingFile(d).exists
             THEN load(BackingFile(d).content) ELSE EmptyMap]

\* the value of the key 'vagrant_checksum' a run found in the store
NotStored == [present |-> FALSE, value |-> PyNone]
NoRun == [pc |-> "exit", option |-> "", stored |-> NotStored,
          current_checksum |-> PyNone, boxes |-> <<>>, i |-> 0,
          configs |-> <<>>, returned |-> {}]
(***************************************************************************)
(* The directory tree and the operations that change it                    *)
(***************************************************************************)
NoScan == [called |-> FALSE]
NoProbe == [called |-> FALSE]
NoResult == [called |-> FALSE]
NoChange == [op |-> "none", path |-> <<>>, pos |-> 0, old |-> UBlock(0)]
EmptyRecord == <<>>

EmptyTree == [p \in Slots |-> IF p = D THEN Dir ELSE Absent]

SmallFiles == {<<>>, <<UBlock(1)>>}
LargeFiles == {Ramp(64), Ramp(65)}

IsLarge(blocks) == Len(blocks) * block_size >= 2^26

\* the positions a write may touch: the first block, the block behind the
\* first 32 and the last block
WritePositions(blocks) == {1, 33, Len(blocks)} \cap (1..Len(blocks))

CreateFile(p, blocks) ==
    /\ p \in FileSlots
    /\ ~lexists(fs, p)
    /\ isdir(fs, Parent(p))
    /\ IsLarge(blocks) => p \in LargeSlots
    /\ fs' = [fs EXCEPT ![p] = File(blocks)]
    /\ scan' = NoScan
    /\ probe' = NoProbe
    /\ result' = NoResult
    /\ last' = NoChange
    /\ UNCHANGED <<checksum, storeVars, scriptVars>>

\* an in-place write of one block: the length of the file stays
WriteBlock(p, i, v) ==
    /\ isfile(fs, p)
    /\ i \in WritePositions(fs[p].blocks)
    /\ fs[p].blocks[i] # UBlock(v)
    /\ fs' = [fs EXCEPT ![p] = File([fs[p].blocks EXCEPT ![i] = UBlock(v)])]
    /\ scan' = NoScan
    /\ probe' = NoProbe
    /\ result' = NoResult
    /\ last' = [op |-> "write", path |-> p, pos |-> i, old |-> fs[p].blocks[i]]
    /\ UNCHANGED <<checksum, storeVars, scriptVars>>

Mkdir(p) ==
    /\ p \in DirSlots
    /\ ~lexists(fs, p)
    /\ p # D => isdir(fs, Parent(p))
    /\ fs' = [fs EXCEPT ![p] = Dir]
    /\ scan' = NoScan
    /\ probe' = NoProbe
    /\ result' = NoResult
    /\ last' = NoChange
    /\ UNCHANGED <<checksum, storeVars, scriptVars>>

\* os.symlink(target, p)
Symlink(p, target) ==
    /\ ~lexists(fs, p)
    /\ isdir(fs, Parent(p))
    /\ fs' = [fs EXCEPT ![p] = Link(target)]
    /\ scan' = NoScan
    /\ probe' = NoProbe
    /\ result' = NoResult
    /\ last' = NoChange
    /\ UNCHANGED <<checksum, storeVars, scriptVars>>

\* os.remove of a file or a link, os.rmdir of an empty directory
Remove(p) ==
    /\ p \in Slots
    /\ lexists(fs, p)
    /\ \A q \in Slots : Len(q) > Len(p) /\ startswith(q, p) => ~lexists(fs, q)
    /\ fs' = [fs EXCEPT ![p] = Absent]
    /\ scan' = NoScan
    /\ probe' = NoProbe
    /\ result' = NoResult
    /\ last' = NoChange
    /\ UNCHANGED <<checksum, storeVars, scriptVars>>

\* a call of calculateDirMD5; one return value is looked at at a time
Scan(basedir, ord) ==
    /\ ~scan.called
    /\ isdir(fs, basedir)
    /\ scan' = [called |-> TRUE, basedir |-> basedir,
                ret |-> calculateDirMD5(basedir, fs, ord)]
    /\ UNCHANGED <<fs, checksum, result, last, probe, storeVars, scriptVars>>

\* a call of probeDir on a file or a directory
Probe(basedir, ord) ==
    /\ ~probe.called
    /\ exists(fs, basedir)
    /\ probe' = [called |-> TRUE, basedir |-> basedir, ret |-> probeDir(basedir, fs, ord)]
    /\ UNCHANGED <<fs, scan, checksum, result, last, storeVars, scriptVars>>

\* The record of an earlier run: the digest and kind of the scanned directory
\* and of every entry of its manifest.
RecordOf(basedir, ret) ==
    [x \in {basedir} \cup {ret.manifest[i].fullname : i \in 1..Len(ret.manifest)} |->
        IF x = basedir THEN <<ret.md5, "d">>
        ELSE LET i == CHOOSE j \in 1..Len(ret.manifest) : ret.manifest[j].fullname = x
             IN  <<ret.manifest[i].md5, ret.manifest[i].kind>>]

\* the entries of another scanned directory, D2, that holds one file x
D2 == <<"D", "2">>
D2x == os_path_join(D2, <<"x">>)
OtherRecord ==
    LET md5x == calculateFileMD5(<<UBlock(1)>>)
        item == Item(D2x, md5x, "-", 1, 0, block_size, 1, block_size)
    IN  [x \in {D2, D2x} |->
            IF x = D2 THEN <<calculateFileMD5(TmpFile(<<item>>, D2)), "d">>
            ELSE <<md5x, "-">>]

Merge(f, g) == [x \in DOMAIN f \cup DOMAIN g |-> IF x \in DOMAIN f THEN f[x] ELSE g[x]]

SaveRecord(ord, other) ==
    /\ ~result.called
    /\ checksum' = Merge(RecordOf(D, calculateDirMD5(D, fs, ord)),
                         IF other THEN OtherRecord ELSE EmptyRecord)
    /\ UNCHANGED <<fs, scan, result, last, probe, storeVars, scriptVars>>

CheckDir(basedir, ord) ==
    /\ ~result.called
    /\ \E iter \in Perms(DOMAIN Remaining(basedir, checksum, fs, ord)) :
          result' = [called |-> TRUE, basedir |-> basedir,
                     fresh |-> IF isdir(fs, basedir)
                               THEN calculateDirMD5(basedir, fs, ord)
                               ELSE NoScan,
                     ret |-> checkDir(basedir, checksum, fs, ord, iter)]
    /\ UNCHANGED <<fs, scan, checksum, last, probe, storeVars, scriptVars>>

Init ==
    /\ fs = EmptyTree
    /\ scan = NoScan
    /\ checksum = EmptyRecord
    /\ result = NoResult
    /\ last = NoChange
    /\ probe = NoProbe
    /\ disk = NoDisk
    /\ pd = [p \in Procs |-> NoStore]
    /\ pc = [p \in Procs |-> "idle"]
    /\ call = [p \in Procs |-> NoCall]
    /\ fd = [p \in Procs |-> NoFd]
    /\ run = NoRun
    /\ vagrant = {}

NextDigest ==
    \/ \E p \in FileSlots, blocks \in SmallFiles \cup LargeFiles : CreateFile(p, blocks)
    \/ \E p \in FileSlots, i \in {1, 33, 64, 65} : \E v \in {0, i} : WriteBlock(p, i, v)
    \/ \E p \in DirSlots \ {D} : Mkdir(p)
    \/ \E p \in Slots \ {D} : Remove(p)
    \/ \E basedir \in DirSlots, ord \in Orders : Scan(basedir, ord)

SpecDigest == Init /\ [][NextDigest]_vars

\* the files checkDir is exercised on
CheckedSlots == {Da, Ds, Dsa}

NextCheck ==
    \/ \E p \in CheckedSlots, blocks \in SmallFiles : CreateFile(p, blocks)
    \/ \E p \in DirSlots \ {D} : Mkdir(p)
    \/ \E p \in Slots \ {D} : Remove(p)
    \/ \E ord \in Orders, other \in BOOLEAN : SaveRecord(ord, other)
    \/ \E basedir \in DirSlots, ord \in Orders : CheckDir(basedir, ord)

SpecCheck == Init /\ [][NextCheck]_vars


NextProbe ==
    \/ \E p \in FileSlots, blocks \in SmallFiles \cup LargeFiles : CreateFile(p, blocks)
    \/ \E p \in DirSlots \ {D} : Mkdir(p)
    \/ \E p \in Slots \ {D} : Remove(p)
    \/ \E basedir \in Slots, ord \in Orders : Probe(basedir, ord)

SpecProbe == Init /\ [][NextProbe]_vars

\* trees with symbolic links: to a file, to a directory, to an ancestor,
\* to nothing
LinkSlots == {Da, Dsa}
LinkTargets == {Db, Ds, D}

NextLinks ==
    \/ \E blocks \in SmallFiles : CreateFile(Db, blocks)
    \/ Mkdir(Ds)
    \/ \E p \in LinkSlots, target \in LinkTargets : Symlink(p, target)
    \/ \E p \in Slots \ {D} : Remove(p)
    \/ \E basedir \in DirSlots, ord \in Orders : Scan(basedir, ord)

SpecLinks == Init /\ [][NextLinks]_vars
(***************************************************************************)
(* PersistentDict: the operations.  sync() is a sequence of steps          *)
(* (open the temp file, one write per chunk, the except and finally        *)
(* clauses, the move), so that the steps of two processes interleave.      *)
(***************************************************************************)
Keys == {"k1", "k2"}
\* the values stored under each key: a string, an integer, an object that
\* json and pickle cannot serialize
Values(k) == IF k = "k1" THEN {PyStr("v"), PyInt("1")} ELSE {PyStr("v"), Obj}
SyncNames == {"sync", "close", "__exit__"}

Done(p, name, exc) ==
    call' = [call EXCEPT ![p] = [NoCall EXCEPT !.op = name, !.exc = exc]]

\* PersistentDict(filename, flag, format=format)
Open(p, flag, format) ==
    /\ pc[p] = "idle"
    /\ LET reads == flag # "n" /\ BackingFile(disk).exists
           content == BackingFile(disk).content
       IN  IF reads /\ LoadRaises(content)
           THEN /\ Done(p, "open", "ValueError")
                /\ UNCHANGED pd
           ELSE /\ Done(p, "open", "")
                /\ pd' = [pd EXCEPT ![p] = PersistentDict(disk, flag, format)]
    /\ UNCHANGED <<disk, pc, fd, treeVars, scriptVars>>

SetWritingThrough(p, k, v) ==
    /\ pc[p] = "idle"
    /\ pd' = [pd EXCEPT ![p].map = Put(@, k, v)]
    /\ Done(p, "set", "")
    /\ disk' = [disk EXCEPT !.data[disk.file] = dump("csv", pd'[p].map)]
    /\ UNCHANGED <<pc, fd, treeVars, scriptVars>>

\* store[k] = v
Set(p, k, v) ==
    /\ pc[p] = "idle"
    /\ pd' = [pd EXCEPT ![p].map = Put(@, k, v)]
    /\ Done(p, "set", "")
    /\ UNCHANGED <<disk, pc, fd, treeVars, scriptVars>>

\* store[k]
Get(p, k) ==
    /\ pc[p] = "idle"
    /\ Done(p, "get", IF k \in DOMAIN pd[p].map THEN "" ELSE "KeyError")
    /\ UNCHANGED <<disk, pd, pc, fd, treeVars, scriptVars>>

\* k in store
Contains(p, k) ==
    /\ pc[p] = "idle"
    /\ Done(p, "contains", "")
    /\ UNCHANGED <<disk, pd, pc, fd, treeVars, scriptVars>>

\* del store[k]
Delete(p, k) ==
    /\ pc[p] = "idle"
    /\ IF k \in DOMAIN pd[p].map
       THEN pd' = [pd EXCEPT ![p].map = Del(@, k)] /\ Done(p, "delete", "")
       ELSE UNCHANGED pd /\ Done(p, "delete", "KeyError")
    /\ UNCHANGED <<disk, pc, fd, treeVars, scriptVars>>

\* the entry of sync(): a read-only store returns at once.  overlap records
\* that the call ran while a call of another process was under way.
EnterSync(p, name, d, store) ==
    /\ call' = [q \in Procs |->
                  IF q = p
                  THEN [NoCall EXCEPT !.op = name, !.before = BackingFile(d),
                                      !.overlap = store.flag # "r" /\ \E r \in Procs \ {p} : pc[r] # "idle"]
                  ELSE [call[q] EXCEPT !.overlap = @ \/ (store.flag # "r" /\ pc[q] # "idle")]]
    /\ pc' = [pc EXCEPT ![p] = IF store.flag = "r" THEN "idle" ELSE "open"]

\* sync(), close() and __exit__() are the same call
Sync(p, name) ==
    /\ pc[p] = "idle"
    /\ name \in SyncNames
    /\ EnterSync(p, name, disk, pd[p])
    /\ UNCHANGED <<disk, pd, fd, treeVars, scriptVars>>

\* clear(): os.remove(self.filename), then self.close()
Clear(p) ==
    /\ pc[p] = "idle"
    /\ IF ~BackingFile(disk).exists
       THEN /\ Done(p, "clear", "OSError")
            /\ UNCHANGED <<disk, pc>>
       ELSE /\ disk' = os_remove(disk, fd, "file")
            /\ EnterSync(p, "clear", disk', pd[p])
    /\ UNCHANGED <<pd, fd, treeVars, scriptVars>>

\* fileobj = open(tempname, 'w'); dump() starts
SyncOpen(p) ==
    /\ pc[p] = "open"
    /\ disk' = open_w(disk, fd)
    /\ fd' = [fd EXCEPT ![p] = [inode |-> disk'.temp, off |-> 0]]
    /\ call' = [call EXCEPT ![p].todo = dump(pd[p].format, pd[p].map),
                            ![p].raises = IF DumpRaises(pd[p].format, pd[p].map)
                                          THEN DumpError(pd[p].format, pd[p].map) ELSE ""]
    /\ pc' = [pc EXCEPT ![p] = "dump"]
    /\ UNCHANGED <<pd, treeVars, scriptVars>>

\* one fileobj.write of the serializer
SyncWrite(p) ==
    /\ pc[p] = "dump"
    /\ call[p].todo # <<>>
    /\ disk' = [disk EXCEPT !.data[fd[p].inode] = WriteAt(@, fd[p].off, Head(call[p].todo))]
    /\ fd' = [fd EXCEPT ![p].off = @ + 1]
    /\ call' = [call EXCEPT ![p].todo = Tail(@), ![p].wrote = @ + 1]
    /\ UNCHANGED <<pd, pc, treeVars, scriptVars>>

SyncDumpReturns(p) ==
    /\ pc[p] = "dump"
    /\ call[p].todo = <<>>
    /\ call[p].raises = ""
    /\ pc' = [pc EXCEPT ![p] = "close"]
    /\ UNCHANGED <<disk, pd, call, fd, treeVars, scriptVars>>

SyncDumpRaises(p) ==
    /\ pc[p] = "dump"
    /\ call[p].todo = <<>>
    /\ call[p].raises # ""
    /\ pc' = [pc EXCEPT ![p] = "except"]
    /\ call' = [call EXCEPT ![p].exc = call[p].raises]
    /\ UNCHANGED <<disk, pd, fd, treeVars, scriptVars>>

\* except Exception: os.remove(tempname); raise
SyncExcept(p) ==
    /\ pc[p] = "except"
    /\ IF TempFile(disk).exists
       THEN disk' = os_remove(disk, fd, "temp") /\ UNCHANGED call
       ELSE call' = [call EXCEPT ![p].exc = "OSError"] /\ UNCHANGED disk
    /\ pc' = [pc EXCEPT ![p] = "close"]
    /\ UNCHANGED <<pd, fd, treeVars, scriptVars>>

\* finally: fileobj.close(); a pending exception leaves sync() here
SyncClose(p) ==
    /\ pc[p] = "close"
    /\ fd' = [fd EXCEPT ![p] = NoFd]
    /\ disk' = Collect(disk, fd')
    /\ pc' = [pc EXCEPT ![p] = IF call[p].exc # "" THEN "idle" ELSE "move"]
    /\ UNCHANGED <<pd, call, treeVars, scriptVars>>

\* shutil.move(tempname, self.filename); mode is None, so no chmod
SyncMove(p) ==
    /\ pc[p] = "move"
    /\ IF TempFile(disk).exists
       THEN disk' = os_rename(disk, fd) /\ UNCHANGED call
       ELSE call' = [call EXCEPT ![p].exc = "IOError"] /\ UNCHANGED disk
    /\ pc' = [pc EXCEPT ![p] = "idle"]
    /\ UNCHANGED <<pd, fd, treeVars, scriptVars>>

SyncStep(p) ==
    \/ SyncOpen(p)
    \/ SyncWrite(p)
    \/ SyncDumpReturns(p)
    \/ SyncDumpRaises(p)
    \/ SyncExcept(p)
    \/ SyncClose(p)
    \/ SyncMove(p)

NextStore ==
    \/ \E flag \in Flags, format \in Formats \cup {"xml"} : Open(1, flag, format)
    \/ \E k \in Keys : \E v \in Values(k) : Set(1, k, v)
    \/ \E k \in Keys : Delete(1, k)
    \/ \E k \in Keys : Get(1, k)
    \/ \E k \in Keys : Contains(1, k)
    \/ \E name \in SyncNames : Sync(1, name)
    \/ Clear(1)
    \/ SyncStep(1)

SpecStore == Init /\ [][NextStore]_vars

\* two processes, each with its store open on the same file, call sync()
SyncMaps == {Put(EmptyMap, "k1", PyStr("v")),
             Put(Put(EmptyMap, "k1", PyInt("1")), "k2", PyStr("v")),
             Put(Put(EmptyMap, "k1", PyInt("1")), "k2", Obj)}
InitSync2 ==
    /\ fs = EmptyTree
    /\ scan = NoScan
    /\ checksum = EmptyRecord
    /\ result = NoResult
    /\ last = NoChange
    /\ probe = NoProbe
    /\ disk = NoDisk
    /\ \E m1 \in SyncMaps, m2 \in SyncMaps :
          /\ m1 # m2
          /\ pd = [p \in Procs |-> [flag |-> "c", format |-> "json",
                                    map |-> IF p = 1 THEN m1 ELSE m2]]
    /\ pc = [p \in Procs |-> "idle"]
    /\ call = [p \in Procs |-> NoCall]
    /\ fd = [p \in Procs |-> NoFd]
    /\ run = NoRun
    /\ vagrant = {}

NextSync2 ==
    \/ \E p \in Procs : Sync(p, "sync")
    \/ \E p \in Procs : SyncStep(p)

SpecSync2 == InitSync2 /\ [][NextSync2]_vars
(***************************************************************************)
(* The script: process 1 runs the module-level code from the construction  *)
(* of the cache to sys.exit, run after run, while the watched directory    *)
(* and the set of running boxes change.                                    *)
(***************************************************************************)
Boxes == {"web", "db"}
Options == {"list", "host", "help"}
vagrant_cwd == D

\* a hex digest as a value of the store
Md5Value(digest) == [t |-> "str", s |-> <<"md5">>, d |-> digest]
\* the digest of a run, None included, as the mark of the values it memoizes
NoneDigest == <<UBlock(-1)>>
TagOf(checksum_value) == IF checksum_value.t = "none" THEN NoneDigest ELSE checksum_value.d
Memo(type, text, checksum_value) == [t |-> type, s |-> text, d |-> TagOf(checksum_value)]

\* the output of 'vagrant status': the running boxes, in the order of KeyOrder
status(running) == items([b \in running |-> TRUE])

NeverDiffers(stored, current) == FALSE
\* cache['vagrant_checksum'] != current_checksum
Differs(stored, current) == stored # current

InScript(position) == run.pc = position /\ pc[1] = "idle"

\* cache = PersistentDict(cache_file, format='json')
Start(option) ==
    /\ InScript("exit")
    /\ IF BackingFile(disk).exists /\ LoadRaises(BackingFile(disk).content)
       THEN /\ Done(1, "open", "ValueError")
            /\ UNCHANGED <<pd, run>>
       ELSE LET cache == PersistentDict(disk, "c", "json")
            IN  /\ pd' = [pd EXCEPT ![1] = cache]
                /\ Done(1, "open", "")
                /\ run' = [NoRun EXCEPT
                             !.pc = "checksum",
                             !.option = option,
                             !.stored = IF "vagrant_checksum" \in DOMAIN cache.map
                                        THEN [present |-> TRUE,
                                              value |-> cache.map["vagrant_checksum"]]
                                        ELSE NotStored]
    /\ UNCHANGED <<disk, pc, fd, vagrant, treeVars>>

\* current_checksum = calculateDirMD5(vagrant_cwd, ...)[0], or None
Checksum(ord) ==
    /\ InScript("checksum")
    /\ run' = [run EXCEPT
                 !.pc = "invalidate",
                 !.current_checksum =
                     IF exists(fs, vagrant_cwd)
                     THEN Md5Value(calculateDirMD5(vagrant_cwd, fs, ord).md5)
                     ELSE PyNone]
    /\ UNCHANGED <<vagrant, storeVars, treeVars>>

\* the stored digest differs: the file is removed and the cache built anew
InvalidatePurge ==
    /\ InScript("invalidate")
    /\ "vagrant_checksum" \in DOMAIN pd[1].map
    /\ Differs(pd[1].map["vagrant_checksum"], run.current_checksum)
    /\ IF ~BackingFile(disk).exists
       THEN /\ Done(1, "remove", "OSError")
            /\ run' = [run EXCEPT !.pc = "exit"]
            /\ UNCHANGED <<disk, pd, pc>>
       ELSE /\ disk' = os_remove(disk, fd, "file")
            /\ pd' = [pd EXCEPT ![1] =
                        [PersistentDict(disk', "c", "json") EXCEPT
                            !.map = Put(@, "vagrant_checksum", run.current_checksum)]]
            /\ EnterSync(1, "sync", disk', pd'[1])
            /\ run' = [run EXCEPT !.pc = "options"]
    /\ UNCHANGED <<fd, vagrant, treeVars>>

InvalidateKeep ==
    /\ InScript("invalidate")
    /\ "vagrant_checksum" \in DOMAIN pd[1].map
    /\ ~Differs(pd[1].map["vagrant_checksum"], run.current_checksum)
    /\ run' = [run EXCEPT !.pc = "options"]
    /\ UNCHANGED <<vagrant, storeVars, treeVars>>

\* cache[k] = v; cache.sync()
SetAndSync(k, v) ==
    /\ pd' = [pd EXCEPT ![1].map = Put(@, k, v)]
    /\ EnterSync(1, "sync", disk, pd'[1])
    /\ UNCHANGED <<disk, fd>>

InvalidateFirst ==
    /\ InScript("invalidate")
    /\ "vagrant_checksum" \notin DOMAIN pd[1].map
    /\ SetAndSync("vagrant_checksum", run.current_checksum)
    /\ run' = [run EXCEPT !.pc = "options"]
    /\ UNCHANGED <<vagrant, treeVars>>

\* neither --list nor --host: parser.print_help()
PrintHelp ==
    /\ InScript("options")
    /\ run.option = "help"
    /\ run' = [run EXCEPT !.pc = "exit"]
    /\ UNCHANGED <<vagrant, storeVars, treeVars>>

\* get_ssh_config(): 'configs' in cache
GetSshConfigHit ==
    /\ InScript("options")
    /\ run.option # "help"
    /\ "configs" \in DOMAIN pd[1].map
    /\ run' = [run EXCEPT !.pc = "exit",
                          !.returned = @ \cup {pd[1].map["configs"]}]
    /\ UNCHANGED <<vagrant, storeVars, treeVars>>

GetSshConfigMiss ==
    /\ InScript("options")
    /\ run.option # "help"
    /\ "configs" \notin DOMAIN pd[1].map
    /\ run' = [run EXCEPT !.pc = "list_running_boxes", !.configs = <<>>]
    /\ UNCHANGED <<vagrant, storeVars, treeVars>>

\* list_running_boxes(): 'boxes' in cache
ListRunningBoxesHit ==
    /\ InScript("list_running_boxes")
    /\ "boxes" \in DOMAIN pd[1].map
    /\ run' = [run EXCEPT !.pc = "for", !.i = 1,
                          !.boxes = pd[1].map["boxes"].s,
                          !.returned = @ \cup {pd[1].map["boxes"]}]
    /\ UNCHANGED <<vagrant, storeVars, treeVars>>

ListRunningBoxesMiss ==
    /\ InScript("list_running_boxes")
    /\ "boxes" \notin DOMAIN pd[1].map
    /\ LET boxes == Memo("list[str]", status(vagrant), run.current_checksum)
       IN  /\ SetAndSync("boxes", boxes)
           /\ run' = [run EXCEPT !.pc = "for", !.i = 1, !.boxes = boxes.s,
                                 !.returned = @ \cup {boxes}]
    /\ UNCHANGED <<vagrant, treeVars>>

\* subprocess.check_output(["vagrant", "status"]) raises: the run ends
ListRunningBoxesFails ==
    /\ InScript("list_running_boxes")
    /\ "boxes" \notin DOMAIN pd[1].map
    /\ run' = [run EXCEPT !.pc = "exit"]
    /\ UNCHANGED <<vagrant, storeVars, treeVars>>

\* get_a_ssh_config(box): box_name in cache
GetASshConfigHit ==
    /\ InScript("for")
    /\ run.i <= Len(run.boxes)
    /\ run.boxes[run.i] \in DOMAIN pd[1].map
    /\ LET config == pd[1].map[run.boxes[run.i]]
       IN  run' = [run EXCEPT !.i = @ + 1,
                              !.configs = @ \o config.s,
                              !.returned = @ \cup {config}]
    /\ UNCHANGED <<vagrant, storeVars, treeVars>>

GetASshConfigMiss ==
    /\ InScript("for")
    /\ run.i <= Len(run.boxes)
    /\ run.boxes[run.i] \notin DOMAIN pd[1].map
    /\ LET config == Memo("dict", <<run.boxes[run.i]>>, run.current_checksum)
       IN  /\ SetAndSync(run.boxes[run.i], config)
           /\ run' = [run EXCEPT !.i = @ + 1,
                                 !.configs = @ \o config.s,
                                 !.returned = @ \cup {config}]
    /\ UNCHANGED <<vagrant, treeVars>>

\* subprocess.check_output(["vagrant", "ssh-config", box_name]) raises
GetASshConfigFails ==
    /\ InScript("for")
    /\ run.i <= Len(run.boxes)
    /\ run.boxes[run.i] \notin DOMAIN pd[1].map
    /\ run' = [run EXCEPT !.pc = "exit"]
    /\ UNCHANGED <<vagrant, storeVars, treeVars>>

\* the end of get_ssh_config(): cache['configs'] = configs; cache.sync()
GetSshConfigReturn ==
    /\ InScript("for")
    /\ run.i > Len(run.boxes)
    /\ LET configs == Memo("list[dict]", run.configs, run.current_checksum)
       IN  /\ SetAndSync("configs", configs)
           /\ run' = [run EXCEPT !.pc = "exit", !.returned = @ \cup {configs}]
    /\ UNCHANGED <<vagrant, treeVars>>

\* vagrant up / vagrant halt
Up(box) ==
    /\ box \notin vagrant
    /\ vagrant' = vagrant \cup {box}
    /\ UNCHANGED <<run, storeVars, treeVars>>

Halt(box) ==
    /\ box \in vagrant
    /\ vagrant' = vagrant \ {box}
    /\ UNCHANGED <<run, storeVars, treeVars>>

\* the steps of cache.sync(); what the script stores (strings, lists, dicts)
\* is serializable by json, so that dump() returns
ScriptSyncStep ==
    \/ SyncOpen(1)
    \/ SyncWrite(1)
    \/ SyncDumpReturns(1)
    \/ SyncClose(1)
    \/ SyncMove(1)

NextScript ==
    \/ \E option \in Options : Start(option)
    \/ \E ord \in Orders : Checksum(ord)
    \/ InvalidatePurge
    \/ InvalidateKeep
    \/ InvalidateFirst
    \/ PrintHelp
    \/ GetSshConfigHit
    \/ GetSshConfigMiss
    \/ ListRunningBoxesHit
    \/ ListRunningBoxesMiss
    \/ ListRunningBoxesFails
    \/ GetASshConfigHit
    \/ GetASshConfigMiss
    \/ GetASshConfigFails
    \/ GetSshConfigReturn
    \/ ScriptSyncStep
    \/ \E box \in Boxes : Up(box)
    \/ \E box \in Boxes : Halt(box)
    \/ \E blocks \in SmallFiles : CreateFile(Da, blocks)
    \/ Mkdir(D)
    \/ \E p \in {D, Da} : Remove(p)

SpecScript == Init /\ [][NextScript]_vars
(***************************************************************************)
(* Properties of the digests (SpecDigest)                                  *)
(***************************************************************************)
\* a path below dir in the hierarchy
Under(path, dir) == startswith(path, dir \o <<"/">>)

Ancestors(path) == {d \in DirSlots : Under(path, d)}

FirstAndLast32(blocks) ==
    SubSeq(blocks, 1, 32) \o SubSeq(blocks, Len(blocks) - 31, Len(blocks))

\* C3: the digest of every file of 64 MiB or more is the hash of its first 32
\* one-MiB blocks followed by its last 32 one-MiB blocks.
C3_FirstAndLast32MiB ==
    scan.called =>
        \A i \in 1..Len(scan.ret.manifest) :
            LET item == scan.ret.manifest[i]
            IN  (item.kind = "-" /\ IsLarge(fs[item.fullname].blocks)) =>
                    item.md5 = hexdigest(FirstAndLast32(fs[item.fullname].blocks))

\* C4: the digest calculateDirMD5 returned is the digest it returns for the
\* same tree under every other listing order.
C4_ListingOrderIndependent ==
    scan.called =>
        \A o \in Orders : calculateDirMD5(scan.basedir, fs, o).md5 = scan.ret.md5

\* the tree before the last write
Before ==
    [fs EXCEPT ![last.path] =
        File([fs[last.path].blocks EXCEPT ![last.pos] = last.old])]

DirDigests(d, tree) == {calculateDirMD5(d, tree, o).md5 : o \in Orders}

\* the positions of the blocks calculateFileMD5 gives to md5.update
HashedPositions(blocks) ==
    IF Len(blocks) * block_size < 2^26 THEN 1..Len(blocks)
    ELSE {PartialPos(blocks, k) + 1 : k \in 1..(PartialBreak(blocks) - 1)}

\* the write changed the digest of the file and of every directory above it,
\* and of nothing else
WriteChangedExactlyAncestors ==
    /\ calculateFileMD5(fs[last.path].blocks) # calculateFileMD5(Before[last.path].blocks)
    /\ \A d \in Ancestors(last.path) : DirDigests(d, Before) \cap DirDigests(d, fs) = {}
    /\ \A d \in DirSlots \ Ancestors(last.path) :
          isdir(fs, d) =>
             \A o \in Orders : calculateDirMD5(d, Before, o).md5 = calculateDirMD5(d, fs, o).md5
    /\ \A q \in FileSlots \ {last.path} :
          isfile(fs, q) => calculateFileMD5(fs[q].blocks) = calculateFileMD5(Before[q].blocks)

DirectFiles(dir, tree) == {p \in Slots : Parent(p) = dir /\ p # dir /\ isfile(tree, p)}
DirectDirs(dir, tree) == {p \in Slots : Parent(p) = dir /\ p # dir /\ isdir(tree, p)}
FilesUnder(dir, tree) == {p \in Slots : Under(p, dir) /\ isfile(tree, p)}

RECURSIVE SumOfSizes(_, _)
SumOfSizes(files, tree) ==
    IF files = {} THEN 0
    ELSE LET p == CHOOSE q \in files : TRUE
         IN  getsize(tree, p) + SumOfSizes(files \ {p}, tree)

\* C12: calculateDirMD5 returns the number of files and of directories
\* directly inside the directory, and the number and the summed size of the
\* files of the whole subtree, each file counted once.
C12_AggregatesCountEachFileOnce ==
    scan.called =>
        /\ scan.ret.nfiles = Cardinality(DirectFiles(scan.basedir, fs))
        /\ scan.ret.ndirs = Cardinality(DirectDirs(scan.basedir, fs))
        /\ scan.ret.total_nfiles = Cardinality(FilesUnder(scan.basedir, fs))
        /\ scan.ret.total_sfiles = SumOfSizes(FilesUnder(scan.basedir, fs), fs)

FilesAtOrUnder(path, tree) ==
    {p \in Slots : (p = path \/ Under(p, path)) /\ isfile(tree, p)}
DirsUnder(path, tree) == {p \in Slots : Under(p, path) /\ isdir(tree, p)}

RECURSIVE SumOfCappedSizes(_, _)
SumOfCappedSizes(files, tree) ==
    IF files = {} THEN 0
    ELSE LET p == CHOOSE q \in files : TRUE
         IN  Min(2^26, getsize(tree, p)) + SumOfCappedSizes(files \ {p}, tree)

\* C15: probeDir returns as size the sum of min(64 MiB, size) over the files
\* at or under the path, and as count 1 for every file at or under the path
\* plus 1 for every directory under it.
C15_ProbeCountsFilesAndDirs ==
    probe.called =>
        /\ probe.ret.filesize = SumOfCappedSizes(FilesAtOrUnder(probe.basedir, fs), fs)
        /\ probe.ret.count = Cardinality(FilesAtOrUnder(probe.basedir, fs))
                              + Cardinality(DirsUnder(probe.basedir, fs))

\* the path is an entry of the tree that is no link and lies below no link
LinkFree(path) ==
    /\ path \in Slots
    /\ \A q \in Slots : (q = path \/ Under(path, q)) => fs[q].kind # "link"

\* C16: no entry of the manifest calculateDirMD5 returns is a symbolic link
\* or was reached through one: links are not hashed and not traversed.
C16_LinksAreSkipped ==
    scan.called =>
        \A i \in 1..Len(scan.ret.manifest) : LinkFree(scan.ret.manifest[i].fullname)

(***************************************************************************)
(* Properties of checkDir (SpecCheck)                                      *)
(***************************************************************************)
Failed(dir) == Msg(dir, ": FAILED")
Okay(dir) == Msg(dir, ": OK")

\* C1: on a directory with no entry in the record for it or for a path under
\* it, checkDir returns (False, ['<dir>: FAILED']).
C1_FirstRunReportsFailed ==
    (/\ result.called
     /\ isdir(fs, result.basedir)
     /\ \A k \in DOMAIN checksum : k # result.basedir /\ ~Under(k, result.basedir))
    => result.ret = Return(FALSE, <<Failed(result.basedir)>>)

\* checkDir went through the full diff
FullDiff ==
    /\ result.called
    /\ isdir(fs, result.basedir)
    /\ result.basedir \in DOMAIN checksum
    /\ result.fresh.md5 # checksum[result.basedir][1]
    /\ DOMAIN Candidates(result.basedir, checksum) # {}

Itemized == SubSeq(result.ret.messages, 1, Len(result.ret.messages) - 1)

FreshLines == {result.fresh.manifest[i] : i \in 1..Len(result.fresh.manifest)}

AddedExpected ==
    {AddedMsg(l) : l \in {x \in FreshLines : x.fullname \notin DOMAIN checksum}}

ModifiedExpected ==
    {ModifiedMsg(l) : l \in {x \in FreshLines : /\ x.fullname \in DOMAIN checksum
                                                 /\ x.md5 # checksum[x.fullname][1]}}

RemovedExpected ==
    {RemovedMsg(k, checksum[k]) :
        k \in {x \in DOMAIN checksum : /\ Under(x, result.basedir)
                                       /\ \A l \in FreshLines : l.fullname # x}}

\* the path a message names
MsgPath(m) == SubSeq(m, 1, Len(m) - 1)

\* C6: in the full diff the itemized messages are exactly the added, the
\* modified and the removed paths, each path once, the removed ones last.
C6_DiffIsExact ==
    FullDiff =>
        /\ {Itemized[i] : i \in 1..Len(Itemized)}
              = AddedExpected \cup ModifiedExpected \cup RemovedExpected
        /\ \A i, j \in 1..Len(Itemized) :
              MsgPath(Itemized[i]) = MsgPath(Itemized[j]) => i = j
        /\ \A i, j \in 1..Len(Itemized) :
              (Itemized[i] \in RemovedExpected /\ Itemized[j] \notin RemovedExpected) => j < i

\* C7: for a directory with an entry in the record, ok is the equality of the
\* fresh and the stored digest; ok gives ['<dir>: OK'], and otherwise the list
\* ends with '<dir>: FAILED', which it holds once.
C7_OkIffDigestEqual ==
    (result.called /\ isdir(fs, result.basedir) /\ result.basedir \in DOMAIN checksum) =>
        LET ret == result.ret
            msgs == ret.messages
        IN  /\ ret.raised = ""
            /\ ret.ok <=> (result.fresh.md5 = checksum[result.basedir][1])
            /\ ret.ok => msgs = <<Okay(result.basedir)>>
            /\ ~ret.ok =>
                  /\ Len(msgs) >= 1
                  /\ msgs[Len(msgs)] = Failed(result.basedir)
                  /\ Cardinality({i \in 1..Len(msgs) : msgs[i] = Failed(result.basedir)}) = 1

\* a failed check of a recorded directory that itemizes two changes
C7_Witness ==
    /\ FullDiff
    /\ ~result.ret.ok
    /\ Len(result.ret.messages) >= 3


\* C13: the itemized messages come in path order: of two itemized messages
\* the one that names the lexicographically smaller path comes first.
C13_MessagesInPathOrder ==
    FullDiff =>
        \A i, j \in 1..Len(Itemized) :
            CmpPath(MsgPath(Itemized[i]), MsgPath(Itemized[j])) < 0 => i < j

\* C18: every itemized message of checkDir(dir, previousRecord, cb) names a
\* path strictly below dir in the directory hierarchy; a recorded path of a
\* sibling whose name has dir as a string prefix is not reported.
C18_MessagesNameDescendants ==
    (result.called /\ result.ret.raised = "") =>
        \A i \in 1..Len(Itemized) : Under(MsgPath(Itemized[i]), result.basedir)

\* the record is exactly the record of an earlier scan of the checked directory
RecordOfEarlierScan ==
    /\ result.basedir = D
    /\ D \in DOMAIN checksum
    /\ \A k \in DOMAIN checksum : k = D \/ Under(k, D)

\* C19: when the record is exactly that of an earlier scan of dir and checkDir
\* returns ok = False, the list holds at least one itemized message besides
\* the final '<dir>: FAILED'.
C19_FailedNamesAChange ==
    (result.called /\ RecordOfEarlierScan /\ result.ret.raised = "" /\ ~result.ret.ok) =>
        Len(Itemized) >= 1
(***************************************************************************)
(* Properties of PersistentDict (SpecStore, SpecSync2)                     *)
(***************************************************************************)
Returned(p, names) == pc[p] = "idle" /\ call[p].op \in names /\ call[p].exc = ""

\* C2: after clear() has returned on a store whose backing file existed, the
\* backing file does not exist and the in-memory map is empty.
C2_ClearRemovesFileAndMap ==
    \A p \in Procs :
        Returned(p, {"clear"}) => ~BackingFile(disk).exists /\ pd[p].map = EmptyMap

\* the file holds all of what one dump() of some map writes when it returns
WholeSerialization(file) ==
    file.exists => \E fmt \in Formats :
        /\ Decodes(fmt, file.content)
        /\ file.content = dump(fmt, Decoded(file.content))

SyncFailed(p) ==
    pc[p] = "idle" /\ call[p].op \in SyncNames \cup {"clear"} /\ call[p].raises # ""

\* C9: when the serialization fails inside sync(), sync() leaves with that
\* error raised, the temp file is gone and the backing file is what it was when
\* sync() was entered; and with one process the backing file is at every moment
\* a whole serialization: the previous one until the move, the new one after it.
C9_FailedSyncLeavesFileUntouched ==
    \A p \in Procs :
        /\ SyncFailed(p) =>
              /\ call[p].exc = call[p].raises
              /\ ~TempFile(disk).exists
              /\ BackingFile(disk) = call[p].before
        /\ pc[p] # "idle" => BackingFile(disk) = call[p].before
        /\ Returned(p, SyncNames \cup {"clear"}) /\ pd[p].flag # "r" =>
              BackingFile(disk) = [exists |-> TRUE,
                                   content |-> dump(pd[p].format, pd[p].map)]
        /\ WholeSerialization(BackingFile(disk))

C9_Witness ==
    /\ SyncFailed(1)
    /\ call[1].wrote > 0
    /\ call[1].before.exists
    /\ call[1].before.content # <<>>

Synced(p) ==
    /\ pc[p] = "idle"
    /\ call[p].op = "sync"
    /\ call[p].overlap
    /\ ~DumpRaises(pd[p].format, pd[p].map)

\* C10: when the sync() calls of two processes on the same file overlap, both
\* return without an error, the backing file is never partially written, and
\* at the end it holds the whole serialization of one of the two maps.
C10_ConcurrentSyncLastWriterWins ==
    /\ WholeSerialization(BackingFile(disk))
    /\ (\A p \in Procs : Synced(p)) =>
          /\ \A p \in Procs : call[p].exc = ""
          /\ \E p \in Procs :
                BackingFile(disk) = [exists |-> TRUE,
                                     content |-> dump(pd[p].format, pd[p].map)]

MapOps == {"get", "set", "contains", "delete"}

\* C11: a step that changes the backing file (its existence or its content)
\* is a step of sync(), close(), __exit__() or clear(); get, set, contains
\* and delete leave the backing file as it is.
C11_OnlySyncChangesFile ==
    [][/\ BackingFile(disk)' # BackingFile(disk) =>
              \E p \in Procs : call'[p].op \in SyncNames \cup {"clear"}
       /\ \A p \in Procs :
              (call'[p] # call[p] /\ call'[p].op \in MapOps) =>
                  BackingFile(disk)' = BackingFile(disk)]_vars

\* the map was changed by set and delete after a sync, and the file still
\* holds what that sync wrote
C11_Witness ==
    /\ pc[1] = "idle"
    /\ call[1].op = "delete"
    /\ call[1].exc = ""
    /\ pd[1].map # EmptyMap
    /\ BackingFile(disk).exists
    /\ ~LoadRaises(BackingFile(disk).content)
    /\ DOMAIN load(BackingFile(disk).content) # DOMAIN pd[1].map

\* C17: while the store a process holds was opened with flag 'r', no step of
\* that process (set, delete, sync, close, clear, __exit__) changes the
\* backing file, removes it, or creates a temp file.
C17_ReadOnlyStoreLeavesFiles ==
    [][\A p \in Procs :
          (pd[p].flag = "r" /\ pd'[p].flag = "r" /\ <<call[p], pc[p]>>' # <<call[p], pc[p]>>) =>
              /\ BackingFile(disk)' = BackingFile(disk)
              /\ TempFile(disk)' = TempFile(disk)]_vars

\* a writable store of one of the three formats has just returned from sync()
JustSynced(p) ==
    /\ Returned(p, SyncNames)
    /\ pd[p].flag # "r"
    /\ pd[p].format \in Formats

\* what a new PersistentDict on the same file holds is the map of p
ReopensEqual(p) ==
    /\ BackingFile(disk).exists
    /\ ~LoadRaises(BackingFile(disk).content)
    /\ \A flag \in {"c", "r"}, format \in Formats :
          PersistentDict(disk, flag, format).map = pd[p].map

MissingFileOpensEmpty ==
    ~BackingFile(disk).exists =>
        \A flag \in Flags, format \in Formats :
            PersistentDict(disk, flag, format).map = EmptyMap

CsvExact(map) == \A k \in DOMAIN map : map[k].t = "str"

Invalidated ==
    /\ run.pc \in {"options", "list_running_boxes", "for"} \/ (run.pc = "exit" /\ run.option # "")
    /\ run.pc = "options" => pc[1] = "idle"

\* C8: after the invalidation step of a run the key 'vagrant_checksum' holds
\* the digest of that run, in memory and in the backing file; if the stored
\* digest differed, the store holds no other key at that point; and no value
\* the three lookup functions return was memoized under another digest.
C8_CacheFollowsDigest ==
    /\ Invalidated =>
          /\ "vagrant_checksum" \in DOMAIN pd[1].map
          /\ pd[1].map["vagrant_checksum"] = run.current_checksum
          /\ BackingFile(disk).exists
          /\ ~LoadRaises(BackingFile(disk).content)
          /\ "vagrant_checksum" \in DOMAIN load(BackingFile(disk).content)
          /\ load(BackingFile(disk).content)["vagrant_checksum"] = run.current_checksum
    /\ Invalidated /\ run.pc = "options" /\ run.stored.present
          /\ run.stored.value # run.current_checksum =>
          DOMAIN pd[1].map = {"vagrant_checksum"}
    /\ \A v \in run.returned : v.d = TagOf(run.current_checksum)

C8_Witness ==
    /\ run.pc = "exit"
    /\ pc[1] = "idle"
    /\ run.stored.present
    /\ run.stored.value # run.current_checksum
    /\ run.stored.value # PyNone
    /\ Cardinality(run.returned) >= 3
    /\ Cardinality(DOMAIN pd[1].map) >= 4
====
